---- MODULE Spec2Model ----
(***************************************************************************)
(* A model of the retrieval core of the RAG chatbot:                       *)
(*   - VectorDatabase (src/vector_db.py): the FAISS index and its two      *)
(*     parallel lists, mirrored in three files of the persist directory;   *)
(*   - PDFHandler.chunk_text (src/pdf_handler.py): the sliding-window      *)
(*     chunker.                                                            *)
(* Spec is the vector database driven by its public methods; SpecChunk is  *)
(* chunk_text run on bounded texts and configurations.                     *)
(***************************************************************************)
EXTENDS Integers, Sequences, FiniteSets

VARIABLES
    index,            \* self.index: [init |-> FALSE] is None, else the vectors
    documents,        \* self.documents
    metadatas,        \* self.metadatas
    collection_name,  \* self.collection_name
    idxFile,          \* <persist_directory>/faiss.index
    docsFile,         \* <persist_directory>/documents.pkl
    metaFile,         \* <persist_directory>/metadata.pkl
    call,             \* the last method called, its arguments and injected fault
    ret,              \* how that call ended and what it returned
    committed,        \* history: the containers as of the last completed _save
    interrupted,      \* history: a crash struck between the writes of _save since
    faults,           \* history: the faults met so far
    phase,            \* "idle", or "responded": a call has ended and not yet been taken
    text,             \* chunk_text: the text, cleaned on entry
    metadata,         \* chunk_text: the metadata argument
    chunk_size,       \* PDFHandler.chunk_size
    chunk_overlap,    \* PDFHandler.chunk_overlap
    start,            \* chunk_text: the window start
    chunks,           \* chunk_text: the chunks emitted so far
    cpc,              \* chunk_text: "idle", "call", "loop" or "done"
    conc              \* threads that share the VectorDatabase: thr[t] is the
                      \* call of thread t and its locals; overlapped (history):
                      \* a call began while another was under way

dbVars == <<index, documents, metadatas, collection_name, idxFile, docsFile,
            metaFile, call, ret, committed, interrupted, faults, phase>>
chunkVars == <<text, metadata, chunk_size, chunk_overlap, start, chunks, cpc>>
vars == <<index, documents, metadatas, collection_name, idxFile, docsFile,
          metaFile, call, ret, committed, interrupted, faults, phase, text,
          metadata, chunk_size, chunk_overlap, start, chunks, cpc, conc>>

(***************************************************************************)
(* Bounds of the model.                                                    *)
(***************************************************************************)
\* the most entries any container or file holds
MaxDocs == 3
\* the most faults (failed remote calls, failed file operations, crashes)
\* one behaviour meets
MaxFaults == 1
\* the longest batch handed to add_documents
MaxBatch == MaxDocs - 1
\* the largest n_results handed to query
MaxK == MaxDocs
\* the values of n_results: one result, fewer than the collection can hold,
\* and as many
QueryKs == {1, 2, MaxK}

(***************************************************************************)
(* Small helpers.                                                          *)
(***************************************************************************)
Min(a, b) == IF a < b THEN a ELSE b

Range(s) == {s[i] : i \in 1..Len(s)}

SeqsUpTo(S, n) == UNION {[1..m -> S] : m \in 0..n}

Digit(d) == <<"0", "1", "2", "3", "4", "5", "6", "7", "8", "9">>[d + 1]

\* str(n) for n >= 0, as the sequence of its decimal digits
RECURSIVE StrOfInt(_)
StrOfInt(n) ==
    IF n < 10 THEN <<Digit(n)>>
    ELSE Append(StrOfInt(n \div 10), Digit(n % 10))

(***************************************************************************)
(* The embedding gateway.  The remote model is a deterministic function of *)
(* the text; the texts of the model are three, "a" and "b" at the same     *)
(* distance from "c".                                                      *)
(***************************************************************************)
Texts == {"a", "b", "c"}

get_embedding(t) ==
    CASE t = "a" -> <<1, 0>>
      [] t = "b" -> <<0, 1>>
      [] OTHER   -> <<0, 0>>

\* get_batch_embeddings: one get_embedding per text, in order
\* the embeddings collected in the reverse of the order of the texts
BatchEmbeddingsReversed(texts) ==
    [i \in 1..Len(texts) |-> get_embedding(texts[Len(texts) + 1 - i])]

get_batch_embeddings(texts) == [i \in 1..Len(texts) |-> get_embedding(texts[i])]

\* IndexFlatL2's metric: the squared Euclidean distance
L2Sq(u, v) == (u[1] - v[1]) * (u[1] - v[1]) + (u[2] - v[2]) * (u[2] - v[2])

(***************************************************************************)
(* Chunks as add_documents receives them.  keys is the set of optional     *)
(* keys the chunk dict holds; chunk.get(key, default) reads through it.    *)
(***************************************************************************)
AllKeys == {"source", "chunk_id", "title"}

ChunkInputs ==
    { [text |-> "a", keys |-> AllKeys, source |-> "p.pdf", chunk_id |-> 12, title |-> "T"],
      [text |-> "b", keys |-> {}, source |-> "", chunk_id |-> 0, title |-> ""] }

Batches == SeqsUpTo(ChunkInputs, MaxBatch)

\* the metadata dict add_documents builds for one chunk
ChunkMetadata(chunk) ==
    [ source   |-> IF "source" \in chunk.keys THEN chunk.source ELSE "unknown",
      chunk_id |-> StrOfInt(IF "chunk_id" \in chunk.keys THEN chunk.chunk_id ELSE 0),
      title    |-> IF "title" \in chunk.keys THEN chunk.title ELSE "Unknown" ]

(***************************************************************************)
(* Files.  A file is absent, unreadable (a torn or corrupt write) or holds *)
(* the value last written to it in full.                                   *)
(***************************************************************************)
NoFile == [st |-> "absent", data |-> <<>>]
CorruptFile == [st |-> "corrupt", data |-> <<>>]

\* faiss.write_index / pickle.dump of a value, completed
WriteFile(value) == [st |-> "ok", data |-> value]

\* os.path.exists
Exists(f) == f.st # "absent"

\* faiss.read_index / open + pickle.load succeed
Readable(f) == f.st = "ok"

Empty == [vecs |-> <<>>, docs |-> <<>>, metas |-> <<>>]

NoneIndex == [init |-> FALSE, vecs |-> <<>>]

(***************************************************************************)
(* Faults a call can meet.  mode "none": none.  "embed": the at-th         *)
(* embedding call raises.  "error": a file operation raises after `at`     *)
(* files were handled (the exception is caught by the method).  "crash":   *)
(* the process dies between two writes, after `at` of them.  torn: the     *)
(* file being written when the operation raised is left unreadable.        *)
(***************************************************************************)
NoFault == [mode |-> "none", at |-> 0, torn |-> FALSE]

EmbedFault(at) == [mode |-> "embed", at |-> at, torn |-> FALSE]

SaveFaults ==
    {NoFault} \cup
    [mode : {"error"}, at : 0..2, torn : BOOLEAN] \cup
    [mode : {"crash"}, at : 1..2, torn : {FALSE}]

RemoveFaults ==
    {NoFault} \cup
    [mode : {"error"}, at : 0..2, torn : {FALSE}]

\* a fault counts against the behaviour's budget
Met(fault) == IF fault.mode = "none" THEN faults ELSE faults + 1

NoCall == [op |-> "none", chunks |-> <<>>, q |-> "", k |-> 0, fault |-> NoFault]

\* no response of answer_question; keys: the keys of the returned dict
NoResp ==
    [keys |-> {}, answer |-> <<>>, sources |-> <<>>, context_used |-> 0,
     error |-> ""]

\* embeds, gens: the calls the method made to the embedding gateway and to
\* the generation client; resp: what answer_question returned
NoRet ==
    [outcome |-> "ok", docs |-> <<>>, metas |-> <<>>, dists |-> <<>>,
     labels |-> <<>>, embeds |-> 0, gens |-> 0, resp |-> NoResp]

Raised(kind) == [NoRet EXCEPT !.outcome = kind]

(***************************************************************************)
(* VectorDatabase.create_collection                                        *)
(***************************************************************************)
\* the except branch returning with what was read before the failure
LoadOrKeepRead(fi, fd, fm) ==
    IF Exists(fi)
    THEN [ vecs  |-> IF Readable(fi) THEN fi.data ELSE <<>>,
           docs  |-> IF Readable(fi) /\ Readable(fd) THEN fd.data ELSE <<>>,
           metas |-> IF Readable(fi) /\ Readable(fd) /\ Readable(fm)
                     THEN fm.data ELSE <<>> ]
    ELSE Empty

\* the containers create_collection leaves in memory, given the files:
\* those of the files when all three load, else those of a new collection
LoadOrNew(fi, fd, fm) ==
    IF Exists(fi)
    THEN IF Readable(fi) /\ Readable(fd) /\ Readable(fm)
         THEN [vecs |-> fi.data, docs |-> fd.data, metas |-> fm.data]
         ELSE Empty
    ELSE Empty

CreateCollection ==
    LET m == LoadOrNew(idxFile, docsFile, metaFile) IN
    /\ phase = "idle"
    /\ phase' = "responded"
    /\ index' = [init |-> TRUE, vecs |-> m.vecs]
    /\ documents' = m.docs
    /\ metadatas' = m.metas
    /\ collection_name' = "documents"
    /\ call' = [NoCall EXCEPT !.op = "create"]
    /\ ret' = NoRet
    /\ UNCHANGED <<idxFile, docsFile, metaFile, committed, interrupted, faults>>

(***************************************************************************)
(* VectorDatabase._save: the three writes in order, index first.  With a   *)
(* fault after `at` completed writes the later files keep what they held,  *)
(* and the file being written is left unreadable when the write was torn.  *)
(***************************************************************************)
SavedFile(old, value, pos, fault) ==
    IF fault.mode = "none" \/ fault.at >= pos THEN WriteFile(value)
    ELSE IF fault.at = pos - 1 /\ fault.torn THEN CorruptFile
    ELSE old

(***************************************************************************)
(* VectorDatabase.add_documents                                            *)
(***************************************************************************)
\* the containers after index.add, documents.extend and the metadata loop
Appended(m, batch) ==
    LET texts == [i \in 1..Len(batch) |-> batch[i].text] IN
    [ vecs  |-> m.vecs \o get_batch_embeddings(texts),
      docs  |-> m.docs \o texts,
      metas |-> m.metas \o [i \in 1..Len(batch) |-> ChunkMetadata(batch[i])] ]

\* each chunk added as soon as it is embedded: those before the failure stay
AbortedAfterPrefix(m, batch, embFail) ==
    IF embFail = 0 THEN m ELSE Appended(m, SubSeq(batch, 1, embFail - 1))

\* the containers when get_batch_embeddings raised on the embFail-th text,
\* or index.add on the empty array (embFail = 0): nothing was appended yet
Aborted(m, batch, embFail) == m

AddDocuments(batch, embFail, fault) ==
    LET fmet == IF embFail # 0 THEN EmbedFault(embFail) ELSE fault
        \* add_documents calls create_collection when the index is None
        m == IF index.init
             THEN [vecs |-> index.vecs, docs |-> documents, metas |-> metadatas]
             ELSE LoadOrNew(idxFile, docsFile, metaFile)
        new == Appended(m, batch)
        raises == embFail # 0 \/ Len(batch) = 0
    IN
    /\ phase = "idle"
    /\ phase' = "responded"
    /\ Len(m.vecs) + Len(batch) <= MaxDocs
    /\ Len(m.docs) + Len(batch) <= MaxDocs
    /\ Len(m.metas) + Len(batch) <= MaxDocs
    /\ embFail \in 0..Len(batch)
    /\ raises => fault = NoFault
    /\ Met(fmet) <= MaxFaults
    /\ faults' = Met(fmet)
    /\ call' = [NoCall EXCEPT !.op = "add", !.chunks = batch, !.fault = fmet]
    /\ IF raises
       THEN \* an embedding call raised, or index.add rejected the empty array
            /\ index' = [init |-> TRUE, vecs |-> Aborted(m, batch, embFail).vecs]
            /\ documents' = Aborted(m, batch, embFail).docs
            /\ metadatas' = Aborted(m, batch, embFail).metas
            /\ collection_name' = IF index.init THEN collection_name ELSE "documents"
            /\ ret' = IF embFail # 0
                      THEN [Raised("EmbeddingError") EXCEPT !.embeds = embFail]
                      ELSE Raised("ValueError")
            /\ UNCHANGED <<idxFile, docsFile, metaFile, committed, interrupted>>
       ELSE /\ idxFile' = SavedFile(idxFile, new.vecs, 1, fault)
            /\ docsFile' = SavedFile(docsFile, new.docs, 2, fault)
            /\ metaFile' = SavedFile(metaFile, new.metas, 3, fault)
            /\ committed' = IF fault.mode = "none" THEN new ELSE committed
            /\ interrupted' = IF fault.mode = "none" THEN FALSE
                              ELSE IF fault.mode = "crash" THEN TRUE
                              ELSE interrupted
            /\ IF fault.mode = "crash"
               THEN /\ index' = NoneIndex
                    /\ documents' = <<>>
                    /\ metadatas' = <<>>
                    /\ collection_name' = "None"
                    /\ ret' = [Raised("crash") EXCEPT !.embeds = Len(batch)]
               ELSE /\ index' = [init |-> TRUE, vecs |-> new.vecs]
                    /\ documents' = new.docs
                    /\ metadatas' = new.metas
                    /\ collection_name' = IF index.init THEN collection_name ELSE "documents"
                    /\ ret' = [NoRet EXCEPT !.embeds = Len(batch)]

(***************************************************************************)
(* VectorDatabase.query                                                    *)
(***************************************************************************)
\* the distance IndexFlatL2.search gives a result slot it cannot fill
FltMax == 1000000

\* the position of vecs nearest to qv among the positions in S, the
\* lowest position first among equals
Nearest(vecs, qv, S) ==
    CHOOSE i \in S :
        \A j \in S :
            \/ L2Sq(vecs[i], qv) < L2Sq(vecs[j], qv)
            \/ (L2Sq(vecs[i], qv) = L2Sq(vecs[j], qv) /\ i <= j)

\* index.search(qv, n): n (label, distance) pairs, nearest first; labels
\* count from 0, and a slot with no vector left gets label -1
RECURSIVE SearchFrom(_, _, _, _)
SearchFrom(vecs, qv, S, n) ==
    IF n = 0 THEN <<>>
    ELSE IF S = {} THEN <<[label |-> -1, dist |-> FltMax]>> \o SearchFrom(vecs, qv, S, n - 1)
    ELSE LET i == Nearest(vecs, qv, S) IN
         <<[label |-> i - 1, dist |-> L2Sq(vecs[i], qv)]>>
             \o SearchFrom(vecs, qv, S \ {i}, n - 1)

Search(vecs, qv, n) == SearchFrom(vecs, qv, 1..Len(vecs), n)

\* list[i] is defined: i within [-len, len)
PyIndexOk(i, len) == -len <= i /\ i < len

\* list[i] of a Python list held as a 1-based sequence
PyGet(list, i) == IF i >= 0 THEN list[i + 1] ELSE list[Len(list) + i + 1]

\* query past its early return and its embedding call, on the containers m
QueryResult(m, q, k) ==
    LET n == Min(k, Len(m.docs))
        hits == Search(m.vecs, get_embedding(q), n)
    IN
    IF \E h \in 1..Len(hits) : ~PyIndexOk(hits[h].label, Len(m.docs))
    THEN Raised("IndexError")
    ELSE IF \E h \in 1..Len(hits) : ~PyIndexOk(hits[h].label, Len(m.metas))
    THEN Raised("IndexError")
    ELSE [ NoRet EXCEPT
           !.docs   = [h \in 1..Len(hits) |-> PyGet(m.docs, hits[h].label)],
           !.metas  = [h \in 1..Len(hits) |-> PyGet(m.metas, hits[h].label)],
           !.dists  = [h \in 1..Len(hits) |-> hits[h].dist],
           !.labels = [h \in 1..Len(hits) |-> hits[h].label] ]

\* the index is None alone, without the test of len(self.documents)
NothingToSearchNoneOnly(ix, docs) == ~ix.init

\* if self.index is None or len(self.documents) == 0
NothingToSearch(ix, docs) == ~ix.init \/ Len(docs) = 0

\* what query returns on the containers m: the early empty result, or the
\* exception of the embedding call, or the formatted search results
QueryOutcome(ix, m, q, k, embFail) ==
    IF NothingToSearch(ix, m.docs) THEN NoRet
    ELSE IF embFail THEN [Raised("EmbeddingError") EXCEPT !.embeds = 1]
    ELSE [QueryResult(m, q, k) EXCEPT !.embeds = 1]

Query(q, k, embFail) ==
    LET empty == NothingToSearch(index, documents)
        fmet == IF embFail THEN EmbedFault(1) ELSE NoFault
    IN
    /\ phase = "idle"
    /\ phase' = "responded"
    \* the embedding gateway is not called on the early return
    /\ empty => ~embFail
    /\ Met(fmet) <= MaxFaults
    /\ faults' = Met(fmet)
    /\ call' = [NoCall EXCEPT !.op = "query", !.q = q, !.k = k, !.fault = fmet]
    /\ ret' = QueryOutcome(index, [vecs |-> index.vecs, docs |-> documents,
                                    metas |-> metadatas], q, k, embFail)
    /\ UNCHANGED <<index, documents, metadatas, collection_name,
                   idxFile, docsFile, metaFile, committed, interrupted>>

(***************************************************************************)
(* ChatBot.answer_question.  Distances are counted in units of             *)
(* 2^-FracBits: IndexFlatL2 returns float32 values, which reach far below  *)
(* the precision of a Python float near 1.  A Python float keeps           *)
(* MantissaBits significant bits (53 in CPython, against distances down to *)
(* 2^-149); the model keeps the relation at a small scale.                 *)
(***************************************************************************)
\* the binary places of a distance
FracBits == 6
\* the significant bits of a Python float
MantissaBits == 4

\* n_context_docs, as main.py passes it and as the default has it
NContextDocs == 3

\* the length of text_preview before the ellipsis
PreviewLimit == 200

RECURSIVE Pow2(_)
Pow2(n) == IF n <= 0 THEN 1 ELSE 2 * Pow2(n - 1)

\* 1.0 in distance units
One == Pow2(FracBits)

RECURSIVE BitLen(_)
BitLen(n) == IF n = 0 THEN 0 ELSE 1 + BitLen(n \div 2)

\* the multiple of q nearest to n >= 0, the even one of two equally near
RoundHalfEven(n, q) ==
    LET lo == (n \div q) * q
        r  == n - lo
    IN IF 2 * r < q THEN lo
       ELSE IF 2 * r > q THEN lo + q
       ELSE IF (n \div q) % 2 = 0 THEN lo ELSE lo + q

\* the Python float nearest to the exact value x
RoundFloat(x) ==
    LET a    == IF x < 0 THEN -x ELSE x
        drop == BitLen(a) - MantissaBits
        r    == IF drop <= 0 THEN a ELSE RoundHalfEven(a, Pow2(drop))
    IN IF x < 0 THEN -r ELSE r

\* the distance subtracted the wrong way round
RelevanceReversed(distance) == RoundFloat(distance - One)

\* 1 - search_results['distances'][i], in float arithmetic
Relevance(distance) == RoundFloat(One - distance)

\* len(doc), for the texts of the model
TextLen(t) == IF t = "b" THEN 250 ELSE 150

\* doc[:200] + "..." if len(doc) > 200 else doc
TextPreview(doc) ==
    IF TextLen(doc) > PreviewLimit
    THEN [of |-> doc, len |-> PreviewLimit, ellipsis |-> TRUE]
    ELSE [of |-> doc, len |-> TextLen(doc), ellipsis |-> FALSE]

\* dict.get(key, default)
DictGet(d, key, default) == IF key \in DOMAIN d THEN d[key] ELSE default

\* create_rag_prompt: the documents, each under its label "Document i:",
\* then the question
create_rag_prompt(question, context_docs) ==
    [ context  |-> [i \in 1..Len(context_docs) |->
                      [label |-> i, doc |-> context_docs[i]]],
      question |-> question ]

\* the entries of sources, one for each (doc, metadata) pair of the results
Sources(r) ==
    [i \in 1..Min(Len(r.docs), Len(r.metas)) |->
        [ chunk_id        |-> DictGet(r.metas[i], "chunk_id", i - 1),
          source          |-> DictGet(r.metas[i], "source", "Unknown"),
          title           |-> DictGet(r.metas[i], "title", "Unknown"),
          text_preview    |-> TextPreview(r.docs[i]),
          relevance_score |-> Relevance(r.dists[i]) ]]

\* the fixed answer for a search without results
NoDocumentsAnswer == <<"No documents found in the database. Please upload a PDF first.">>

\* the except clause left out: the exception reaches the caller
Propagated(cause, r) == [r EXCEPT !.outcome = cause]

\* except Exception as e: the response that reports the exception as data
Caught(cause, r) ==
    [r EXCEPT !.outcome = "ok",
              !.resp = [ NoResp EXCEPT
                           !.keys = {"answer", "sources", "error"},
                           !.answer = <<"Error generating answer: ", cause>>,
                           !.error = cause ]]

\* the test of the result left out
NoResultsIgnored(r) == FALSE

\* if not search_results['documents']
NoResults(r) == r.docs = <<>>

\* what answer_question returns; r is what query returned or raised
AnswerOutcome(r, question, genFail) ==
    IF r.outcome # "ok" THEN Caught(r.outcome, r)
    ELSE IF NoResults(r)
    THEN [r EXCEPT !.resp = [ NoResp EXCEPT !.keys = {"answer", "sources"},
                                            !.answer = NoDocumentsAnswer ]]
    ELSE IF genFail THEN Caught("GenerationError", [r EXCEPT !.gens = 1])
    ELSE [r EXCEPT !.gens = 1,
                   !.resp = [ NoResp EXCEPT
                                !.keys = {"answer", "sources", "context_used"},
                                !.answer = <<"generated", create_rag_prompt(question, r.docs)>>,
                                !.sources = Sources(r),
                                !.context_used = Len(r.docs) ]]

\* fault: "none", "embed" (the query embedding raises) or "generate" (the
\* generation client raises)
AnswerQuestion(question, fault) ==
    LET m == [vecs |-> index.vecs, docs |-> documents, metas |-> metadatas]
        r == QueryOutcome(index, m, question, NContextDocs, fault = "embed")
        fmet == IF fault = "none" THEN NoFault
                ELSE [mode |-> fault, at |-> 1, torn |-> FALSE]
    IN
    /\ phase = "idle"
    /\ phase' = "responded"
    \* a call that is not made cannot raise
    /\ fault = "embed" => ~NothingToSearch(index, documents)
    /\ fault = "generate" => (r.outcome = "ok" /\ r.docs # <<>>)
    /\ Met(fmet) <= MaxFaults
    /\ faults' = Met(fmet)
    /\ call' = [NoCall EXCEPT !.op = "answer", !.q = question,
                              !.k = NContextDocs, !.fault = fmet]
    /\ ret' = AnswerOutcome(r, question, fault = "generate")
    /\ UNCHANGED <<index, documents, metadatas, collection_name,
                   idxFile, docsFile, metaFile, committed, interrupted>>

(***************************************************************************)
(* VectorDatabase.delete_collection / reset_database                       *)
(***************************************************************************)
\* the file after delete_collection's removals: the pos-th file is removed
\* unless the fault struck before its turn
RemovedFile(old, pos, fault) ==
    IF fault.mode = "none" \/ fault.at >= pos THEN NoFile ELSE old

\* get_collection_count
get_collection_count == Len(documents)

DeleteCollection(fault) ==
    \* os.remove raises only for a file it is asked to remove
    /\ fault.mode = "error" =>
           Exists(<<idxFile, docsFile, metaFile>>[fault.at + 1])
    /\ Met(fault) <= MaxFaults
    /\ faults' = Met(fault)
    /\ idxFile' = RemovedFile(idxFile, 1, fault)
    /\ docsFile' = RemovedFile(docsFile, 2, fault)
    /\ metaFile' = RemovedFile(metaFile, 3, fault)
    /\ committed' = Empty
    /\ interrupted' = FALSE
    /\ IF fault.mode = "error"
       THEN \* the except branch: the assignments after the removals are skipped
            UNCHANGED <<index, documents, metadatas, collection_name>>
       ELSE /\ index' = NoneIndex
            /\ documents' = <<>>
            /\ metadatas' = <<>>
            /\ collection_name' = "None"
    /\ ret' = NoRet

ResetDatabase(fault) ==
    /\ phase = "idle"
    /\ phase' = "responded"
    /\ DeleteCollection(fault)
    /\ call' = [NoCall EXCEPT !.op = "reset", !.fault = fault]

(***************************************************************************)
(* The process ends and main.py constructs a new VectorDatabase.           *)
(***************************************************************************)
Restart ==
    /\ phase = "idle"
    /\ phase' = "responded"
    /\ index' = NoneIndex
    /\ documents' = <<>>
    /\ metadatas' = <<>>
    /\ collection_name' = "None"
    /\ call' = [NoCall EXCEPT !.op = "restart"]
    /\ ret' = NoRet
    /\ UNCHANGED <<idxFile, docsFile, metaFile, committed, interrupted, faults>>

(***************************************************************************)
(* The caller takes the outcome of the call; the next call may start.      *)
(* Calls are synchronous and run one at a time.                            *)
(***************************************************************************)
Return ==
    /\ phase = "responded"
    /\ phase' = "idle"
    /\ call' = NoCall
    /\ ret' = NoRet
    /\ UNCHANGED <<index, documents, metadatas, collection_name, idxFile,
                   docsFile, metaFile, committed, interrupted, faults>>

(***************************************************************************)
(* Threads that call add_documents and query of one VectorDatabase with    *)
(* no lock: each statement that reads or writes the shared containers is   *)
(* one step.                                                               *)
(***************************************************************************)
Threads == {1, 2}

\* a thread outside any call
IdleThread ==
    [pc |-> "idle", batch |-> <<>>, emb |-> <<>>, j |-> 0, q |-> "", k |-> 0,
     n |-> 0, hits |-> <<>>, docs |-> <<>>, metas |-> <<>>, outcome |-> "ok"]

ConcIdle == [thr |-> [t \in Threads |-> IdleThread], overlapped |-> FALSE]

\* a call begins: it overlaps the call another thread is in
Begun(t, rec) ==
    [ thr        |-> [conc.thr EXCEPT ![t] = rec],
      overlapped |-> conc.overlapped \/ \E u \in Threads \ {t} : conc.thr[u].pc # "idle" ]

Moved(t, rec) == [conc EXCEPT !.thr[t] = rec]

\* the chunks of the calls of add_documents under way
InFlight(t) ==
    LET len(u) == IF u # t THEN Len(conc.thr[u].batch) ELSE 0
    IN len(1) + len(2)

\* add_documents, lines 137-145: create_collection when the index is None,
\* the texts and their embeddings
ConcAddBegin(t, batch) ==
    LET m == IF index.init
             THEN [vecs |-> index.vecs, docs |-> documents, metas |-> metadatas]
             ELSE LoadOrNew(idxFile, docsFile, metaFile)
        texts == [i \in 1..Len(batch) |-> batch[i].text]
    IN
    /\ conc.thr[t].pc = "idle"
    /\ batch # <<>>
    /\ Len(m.vecs) + InFlight(t) + Len(batch) <= MaxDocs
    /\ Len(m.docs) + InFlight(t) + Len(batch) <= MaxDocs
    /\ Len(m.metas) + InFlight(t) + Len(batch) <= MaxDocs
    /\ index' = [init |-> TRUE, vecs |-> m.vecs]
    /\ documents' = m.docs
    /\ metadatas' = m.metas
    /\ collection_name' = IF index.init THEN collection_name ELSE "documents"
    /\ conc' = Begun(t, [IdleThread EXCEPT !.pc = "index_add", !.batch = batch,
                                           !.emb = get_batch_embeddings(texts)])
    /\ UNCHANGED <<idxFile, docsFile, metaFile>>

\* self.index.add(embeddings)
ConcIndexAdd(t) ==
    /\ conc.thr[t].pc = "index_add"
    /\ index' = [index EXCEPT !.vecs = index.vecs \o conc.thr[t].emb]
    /\ conc' = Moved(t, [conc.thr[t] EXCEPT !.pc = "extend"])
    /\ UNCHANGED <<documents, metadatas, collection_name, idxFile, docsFile, metaFile>>

\* self.documents.extend(texts)
ConcExtend(t) ==
    LET b == conc.thr[t].batch IN
    /\ conc.thr[t].pc = "extend"
    /\ documents' = documents \o [i \in 1..Len(b) |-> b[i].text]
    /\ conc' = Moved(t, [conc.thr[t] EXCEPT !.pc = "append", !.j = 1])
    /\ UNCHANGED <<index, metadatas, collection_name, idxFile, docsFile, metaFile>>

\* one iteration of the metadata loop: self.metadatas.append(metadata)
ConcMetaAppend(t) ==
    LET th == conc.thr[t] IN
    /\ th.pc = "append"
    /\ metadatas' = Append(metadatas, ChunkMetadata(th.batch[th.j]))
    /\ conc' = Moved(t, IF th.j = Len(th.batch)
                        THEN [th EXCEPT !.pc = "save_index"]
                        ELSE [th EXCEPT !.j = th.j + 1])
    /\ UNCHANGED <<index, documents, collection_name, idxFile, docsFile, metaFile>>

\* _save, one write at a time; after the last add_documents returns
ConcSave(t) ==
    LET th == conc.thr[t] IN
    /\ th.pc \in {"save_index", "save_docs", "save_meta"}
    /\ idxFile' = IF th.pc = "save_index" THEN WriteFile(index.vecs) ELSE idxFile
    /\ docsFile' = IF th.pc = "save_docs" THEN WriteFile(documents) ELSE docsFile
    /\ metaFile' = IF th.pc = "save_meta" THEN WriteFile(metadatas) ELSE metaFile
    /\ conc' = Moved(t, IF th.pc = "save_index" THEN [th EXCEPT !.pc = "save_docs"]
                        ELSE IF th.pc = "save_docs" THEN [th EXCEPT !.pc = "save_meta"]
                        ELSE IdleThread)
    /\ UNCHANGED <<index, documents, metadatas, collection_name>>

\* query, lines 176-184: the early return, else the query embedding
ConcQueryBegin(t, q, k) ==
    /\ conc.thr[t].pc = "idle"
    /\ conc' = Begun(t, [IdleThread EXCEPT
                            !.pc = IF NothingToSearch(index, documents)
                                   THEN "answered" ELSE "n_results",
                            !.q = q, !.k = k])
    /\ UNCHANGED <<index, documents, metadatas, collection_name,
                   idxFile, docsFile, metaFile>>

\* n_results = min(n_results, len(self.documents))
ConcQueryCount(t) ==
    /\ conc.thr[t].pc = "n_results"
    /\ conc' = Moved(t, [conc.thr[t] EXCEPT !.pc = "search",
                                            !.n = Min(conc.thr[t].k, Len(documents))])
    /\ UNCHANGED <<index, documents, metadatas, collection_name,
                   idxFile, docsFile, metaFile>>

\* distances, indices = self.index.search(query_embedding, n_results)
ConcQuerySearch(t) ==
    LET th == conc.thr[t] IN
    /\ th.pc = "search"
    /\ conc' = Moved(t, [th EXCEPT !.pc = "results_docs",
                                   !.hits = Search(index.vecs, get_embedding(th.q), th.n)])
    /\ UNCHANGED <<index, documents, metadatas, collection_name,
                   idxFile, docsFile, metaFile>>

\* results_docs = [self.documents[i] for i in indices[0]]
ConcQueryDocs(t) ==
    LET th == conc.thr[t] IN
    /\ th.pc = "results_docs"
    /\ conc' = Moved(t,
          IF \E h \in 1..Len(th.hits) : ~PyIndexOk(th.hits[h].label, Len(documents))
          THEN [th EXCEPT !.pc = "answered", !.outcome = "IndexError"]
          ELSE [th EXCEPT !.pc = "results_meta",
                          !.docs = [h \in 1..Len(th.hits) |->
                                       PyGet(documents, th.hits[h].label)]])
    /\ UNCHANGED <<index, documents, metadatas, collection_name,
                   idxFile, docsFile, metaFile>>

\* results_meta = [self.metadatas[i] for i in indices[0]]
ConcQueryMetas(t) ==
    LET th == conc.thr[t] IN
    /\ th.pc = "results_meta"
    /\ conc' = Moved(t,
          IF \E h \in 1..Len(th.hits) : ~PyIndexOk(th.hits[h].label, Len(metadatas))
          THEN [th EXCEPT !.pc = "answered", !.outcome = "IndexError"]
          ELSE [th EXCEPT !.pc = "answered",
                          !.metas = [h \in 1..Len(th.hits) |->
                                        PyGet(metadatas, th.hits[h].label)]])
    /\ UNCHANGED <<index, documents, metadatas, collection_name,
                   idxFile, docsFile, metaFile>>

\* query returns, or raises, to its caller
ConcQueryReturn(t) ==
    /\ conc.thr[t].pc = "answered"
    /\ conc' = Moved(t, IdleThread)
    /\ UNCHANGED <<index, documents, metadatas, collection_name,
                   idxFile, docsFile, metaFile>>

\* what the steps of the threads leave alone
ConcFrame == UNCHANGED <<call, ret, committed, interrupted, faults, phase, chunkVars>>

(***************************************************************************)
(* The vector database driven through its public methods.                  *)
(***************************************************************************)
\* the defaults of PDFHandler.__init__, which main.py also passes
DefaultChunkSize == 1000
DefaultChunkOverlap == 200

\* metadata=None, and the metadata process_pdf passes
NoMetadata == <<>>
PdfMetadata == [source |-> "p.pdf", num_pages |-> "1", title |-> "T"]

\* PDFHandler as main.py builds it, chunk_text not running
ChunkIdle ==
    /\ text = <<>>
    /\ metadata = NoMetadata
    /\ chunk_size = DefaultChunkSize
    /\ chunk_overlap = DefaultChunkOverlap
    /\ start = 0
    /\ chunks = <<>>
    /\ cpc = "idle"

DbInit ==
    /\ index = NoneIndex
    /\ documents = <<>>
    /\ metadatas = <<>>
    /\ collection_name = "None"
    /\ idxFile = NoFile
    /\ docsFile = NoFile
    /\ metaFile = NoFile
    /\ call = NoCall
    /\ ret = NoRet
    /\ committed = Empty
    /\ interrupted = FALSE
    /\ faults = 0
    /\ phase = "idle"

Init == DbInit /\ ChunkIdle /\ conc = ConcIdle

Next ==
    \/ CreateCollection /\ UNCHANGED <<chunkVars, conc>>
    \/ \E batch \in Batches :
         \E embFail \in 0..Len(batch) :
           \E fault \in (IF embFail # 0 \/ batch = <<>> THEN {NoFault} ELSE SaveFaults) :
             AddDocuments(batch, embFail, fault) /\ UNCHANGED <<chunkVars, conc>>
    \/ \E q \in Texts, k \in QueryKs, embFail \in BOOLEAN :
           \* the embedding call precedes any use of n_results
           /\ embFail => k = 1
           /\ Query(q, k, embFail) /\ UNCHANGED <<chunkVars, conc>>
    \/ \E question \in Texts, fault \in {"none", "embed", "generate"} :
           AnswerQuestion(question, fault) /\ UNCHANGED <<chunkVars, conc>>
    \/ \E fault \in RemoveFaults : ResetDatabase(fault) /\ UNCHANGED <<chunkVars, conc>>
    \/ Restart /\ UNCHANGED <<chunkVars, conc>>
    \/ Return /\ UNCHANGED <<chunkVars, conc>>

Spec == Init /\ [][Next]_vars

\* two threads on the one VectorDatabase: thread 1 adds, thread 2 adds or
\* queries
NextConc ==
    \/ \E t \in Threads, batch \in Batches : ConcAddBegin(t, batch) /\ ConcFrame
    \/ \E t \in Threads : ConcIndexAdd(t) /\ ConcFrame
    \/ \E t \in Threads : ConcExtend(t) /\ ConcFrame
    \/ \E t \in Threads : ConcMetaAppend(t) /\ ConcFrame
    \/ \E t \in Threads : ConcSave(t) /\ ConcFrame
    \/ \E q \in Texts, k \in {1, MaxK} : ConcQueryBegin(2, q, k) /\ ConcFrame
    \/ ConcQueryCount(2) /\ ConcFrame
    \/ ConcQuerySearch(2) /\ ConcFrame
    \/ ConcQueryDocs(2) /\ ConcFrame
    \/ ConcQueryMetas(2) /\ ConcFrame
    \/ ConcQueryReturn(2) /\ ConcFrame

SpecConc == Init /\ [][NextConc]_vars

(***************************************************************************)
(* PDFHandler.clean_text.  A text is a sequence of characters.             *)
(***************************************************************************)
\* \s of the regular expressions
IsSpace(c) == c \in {" ", "\t", "\n"}

\* [\w\s.,!?;:()\-]: what the second substitution keeps
IsKept(c) ==
    \/ c \in {"a", "b", "c"}
    \/ IsSpace(c)
    \/ c \in {".", ",", "!", "?", ";", ":", "(", ")", "-"}

\* re.sub(r'\s+', ' ', text): each run of whitespace becomes one space
RECURSIVE CollapseFrom(_, _)
CollapseFrom(s, i) ==
    IF i > Len(s) THEN <<>>
    ELSE IF IsSpace(s[i])
         THEN IF i > 1 /\ IsSpace(s[i - 1])
              THEN CollapseFrom(s, i + 1)
              ELSE <<" ">> \o CollapseFrom(s, i + 1)
         ELSE <<s[i]>> \o CollapseFrom(s, i + 1)

CollapseSpaces(s) ==
    IF \A i \in 1..Len(s) : ~IsSpace(s[i]) THEN s ELSE CollapseFrom(s, 1)

\* str.strip()
PyStrip(s) ==
    LET N == {i \in 1..Len(s) : ~IsSpace(s[i])} IN
    IF N = {} THEN <<>>
    ELSE LET first == CHOOSE i \in N : \A j \in 1..(i - 1) : IsSpace(s[j])
             last  == CHOOSE i \in N : \A j \in (i + 1)..Len(s) : IsSpace(s[j])
         IN SubSeq(s, first, last)

clean_text(raw) == PyStrip(SelectSeq(CollapseSpaces(raw), IsKept))

(***************************************************************************)
(* PDFHandler.chunk_text                                                   *)
(***************************************************************************)
\* the longest raw text
MaxTextLen == 6
\* the largest chunk_size
MaxChunkSize == 5
\* the most chunks a run emits before the model stops following it
MaxChunks == 8

Alphabet == {"a", " ", "."}

\* raw texts: all short texts over the alphabet, and some with characters
\* that clean_text rewrites or drops
RawTexts ==
    SeqsUpTo(Alphabet, MaxTextLen) \cup
    { <<"a", "#", "b">>, <<"a", "\t", " ", "b", "\n">>, <<" ", "#", " ">>,
      <<"a", "b", "!", "c", "a", "b">>, <<"a", " ", "#", " ", "b", ".">>,
      <<"a", ".", "a", "?", "a", "b">>, <<"a", "?", "a", ".", "a", "b">>,
      <<"a", "a", "a", "!", "?", "b">>, <<"a", "a", "?", "a", "b", "c">> }

\* a document of 2500 characters with no sentence terminator
ScenarioText == [i \in 1..2500 |-> "a"]

\* configurations with 0 <= chunk_overlap < chunk_size
Configs ==
    {c \in [size : 1..MaxChunkSize, overlap : 0..MaxChunkSize] : c.overlap < c.size}

\* s[a:b] of Python, for any integers a and b
PySlice(s, a, b) ==
    LET norm(x) == IF x < 0
                   THEN (IF x + Len(s) < 0 THEN 0 ELSE x + Len(s))
                   ELSE Min(x, Len(s))
    IN IF norm(a) < norm(b) THEN SubSeq(s, norm(a) + 1, norm(b)) ELSE <<>>

\* s.rfind(ch): the highest index holding ch, counted from 0, or -1
RFind(s, ch) ==
    LET S == {i \in 1..Len(s) : s[i] = ch} IN
    IF S = {} THEN -1 ELSE (CHOOSE i \in S : \A j \in S : j <= i) - 1

Max3(a, b, c) ==
    IF a >= b /\ a >= c THEN a ELSE IF b >= c THEN b ELSE c

\* the window cut at the last sentence end wherever it is, without the
\* halfway test
WindowCutAnywhere(txt, st, size) ==
    LET end == st + size
        chunk == PySlice(txt, st, end)
        sentence_end == Max3(RFind(chunk, "."), RFind(chunk, "?"), RFind(chunk, "!"))
    IN
    IF end < Len(txt) /\ sentence_end >= 0
    THEN [chunk |-> PySlice(chunk, 0, sentence_end + 1), end |-> st + sentence_end + 1]
    ELSE [chunk |-> chunk, end |-> end]

\* the window of one iteration: the chunk and its end, after the
\* sentence-boundary adjustment
Window(txt, st, size) ==
    LET end == st + size
        chunk == PySlice(txt, st, end)
        sentence_end == Max3(RFind(chunk, "."), RFind(chunk, "?"), RFind(chunk, "!"))
    IN
    IF end < Len(txt) /\ sentence_end > size \div 2
    THEN [chunk |-> PySlice(chunk, 0, sentence_end + 1), end |-> st + sentence_end + 1]
    ELSE [chunk |-> chunk, end |-> end]

\* chunk_data.update(metadata), done when metadata is neither None nor empty
Updated(chunk_data, md) ==
    IF DOMAIN md = {} THEN chunk_data
    ELSE [k \in DOMAIN chunk_data \cup DOMAIN md |->
             IF k \in DOMAIN md THEN md[k] ELSE chunk_data[k]]

\* the overlap added instead of subtracted
NextStartGap(end, overlap) == end + overlap

\* start = end - self.chunk_overlap
NextStart(end, overlap) == end - overlap

\* chunk_text is entered: the text is cleaned, the loop starts at 0
ChunkEnter ==
    /\ cpc = "call"
    /\ text' = clean_text(text)
    /\ start' = 0
    /\ chunks' = <<>>
    /\ cpc' = "loop"
    /\ UNCHANGED <<metadata, chunk_size, chunk_overlap>>

\* one iteration of the while loop
ChunkStep ==
    LET w == Window(text, start, chunk_size) IN
    /\ cpc = "loop"
    /\ start < Len(text)
    /\ Len(chunks) < MaxChunks
    /\ chunks' = Append(chunks, Updated([ text      |-> PyStrip(w.chunk),
                                          start_pos |-> start,
                                          end_pos   |-> w.end,
                                          chunk_id  |-> Len(chunks) ], metadata))
    /\ start' = NextStart(w.end, chunk_overlap)
    /\ UNCHANGED <<text, metadata, chunk_size, chunk_overlap, cpc>>

\* the loop condition fails: chunk_text returns chunks
ChunkReturn ==
    /\ cpc = "loop"
    /\ start >= Len(text)
    /\ cpc' = "done"
    /\ UNCHANGED <<text, metadata, chunk_size, chunk_overlap, start, chunks>>

ChunkInit ==
    /\ cpc = "call"
    /\ start = 0
    /\ chunks = <<>>
    /\ metadata \in {NoMetadata, PdfMetadata}
    /\ \/ /\ text \in RawTexts
          /\ \E c \in Configs : chunk_size = c.size /\ chunk_overlap = c.overlap
       \/ /\ text = ScenarioText
          /\ chunk_size = DefaultChunkSize
          /\ chunk_overlap = DefaultChunkOverlap

InitChunk == DbInit /\ ChunkInit /\ conc = ConcIdle

NextChunk ==
    \/ ChunkEnter /\ UNCHANGED <<dbVars, conc>>
    \/ ChunkStep /\ UNCHANGED <<dbVars, conc>>
    \/ ChunkReturn /\ UNCHANGED <<dbVars, conc>>

SpecChunk == InitChunk /\ [][NextChunk]_vars

(***************************************************************************)
(* Properties of the vector database.                                      *)
(***************************************************************************)
\* the three parallel containers, as held in memory
Mem == [vecs |-> index.vecs, docs |-> documents, metas |-> metadatas]

\* what a create_collection issued now would load
Reload == LoadOrNew(idxFile, docsFile, metaFile)

Returned(op) == phase = "responded" /\ call.op = op /\ ret.outcome # "crash"

\* the containers agree in length
Parallel(m) == Len(m.docs) = Len(m.metas) /\ Len(m.metas) = Len(m.vecs)

\* C1: in every reachable state, also after create_collection has loaded the
\* files a failed or interrupted _save left, len(documents), len(metadatas)
\* and the number of vectors in the index are equal.
C1_ParallelContainers == Parallel(Mem)

\* C2: after a crash between the writes of _save, create_collection loads
\* the containers as the last completed _save persisted them, never a mix
\* of old and new files.
C2_CrashLoadsLastSave ==
    (Returned("create") /\ interrupted) => Mem = committed

\* C3: when add_documents has returned normally, the files mirror the
\* containers: a create_collection issued next loads exactly the documents,
\* metadatas and vectors held in memory.
C3_AddMirroredOnDisk ==
    (Returned("add") /\ ret.outcome = "ok") => Reload = Mem

\* C4: reset_database, in whatever state it is called, raises nothing and
\* leaves the index None, get_collection_count() = 0 and none of the three
\* files on disk, so that create_collection then loads an empty collection.
C4_ResetClears ==
    Returned("reset") =>
        /\ ret.outcome = "ok"
        /\ ~index.init
        /\ get_collection_count = 0
        /\ ~Exists(idxFile) /\ ~Exists(docsFile) /\ ~Exists(metaFile)
        /\ Reload = Empty

\* the result r is what query(q, k) has to return on the containers m: the
\* min(k, count) nearest vectors, by non-decreasing distance and by position
\* among equals, each with the document and metadata of its position
TopK(m, q, k, r) ==
    LET n == Min(k, Len(m.docs))
        qv == get_embedding(q)
    IN
    /\ r.outcome = "ok"
    /\ Len(r.docs) = n /\ Len(r.metas) = n /\ Len(r.dists) = n /\ Len(r.labels) = n
    /\ \A h \in 1..n :
        /\ r.labels[h] \in 0..(Len(m.vecs) - 1)
        /\ r.labels[h] < Len(m.docs) /\ r.labels[h] < Len(m.metas)
        /\ r.dists[h] = L2Sq(m.vecs[r.labels[h] + 1], qv)
        /\ r.docs[h] = m.docs[r.labels[h] + 1]
        /\ r.metas[h] = m.metas[r.labels[h] + 1]
    /\ \A g, h \in 1..n :
        g < h => \/ r.dists[g] < r.dists[h]
                 \/ (r.dists[g] = r.dists[h] /\ r.labels[g] < r.labels[h])
    /\ \A h \in 1..n : \A p \in 1..Len(m.vecs) :
        (\A g \in 1..n : r.labels[g] # p - 1) =>
            \/ r.dists[h] < L2Sq(m.vecs[p], qv)
            \/ (r.dists[h] = L2Sq(m.vecs[p], qv) /\ r.labels[h] < p - 1)

\* a query that got past the early return and whose embedding call answered
Searched ==
    /\ Returned("query")
    /\ call.fault.mode = "none"
    /\ index.init
    /\ Len(documents) > 0

\* C9: on an initialized, non-empty collection query(text, k), k >= 1,
\* returns min(k, count) triples by non-decreasing distance, insertion
\* order among equals, each document and metadata being those stored at the
\* position of the matched vector.
C9_QueryTopK == Searched => TopK(Mem, call.q, call.k, ret)

\* C10: once add_documents has succeeded, query with the exact text of an
\* added chunk returns, first, an entry with that text at distance 0.
\* (Stated of the states no crashed _save has left, where every stored text
\* comes from an add_documents that returned.)
C10_AddedChunkOnTop ==
    (Searched /\ ~interrupted /\ call.q \in Range(documents)) =>
        /\ ret.outcome = "ok"
        /\ Len(ret.docs) >= 1
        /\ ret.docs[1] = call.q
        /\ ret.dists[1] = 0

(***************************************************************************)
(* What holds of the same calls while the containers are parallel, that    *)
(* is, apart from the states a partial _save followed by a reload leaves.  *)
(***************************************************************************)
QueryTopKWhenParallel ==
    (Searched /\ Parallel(Mem)) => TopK(Mem, call.q, call.k, ret)

AddedChunkOnTopWhenParallel ==
    (Searched /\ Parallel(Mem) /\ call.q \in Range(documents)) =>
        /\ ret.outcome = "ok"
        /\ ret.docs[1] = call.q
        /\ ret.dists[1] = 0

AddMirroredWhenSaved ==
    (Returned("add") /\ ret.outcome = "ok" /\ call.fault.mode = "none") => Reload = Mem

ResetClearsWhenRemoved ==
    (Returned("reset") /\ call.fault.mode = "none") =>
        /\ ~index.init
        /\ get_collection_count = 0
        /\ ~Exists(idxFile) /\ ~Exists(docsFile) /\ ~Exists(metaFile)
        /\ Reload = Empty

\* C11: query on an index that is None, or on a collection with no
\* documents, returns the empty result (no documents, metadatas, distances)
\* without raising and without a call to the embedding gateway, whatever the
\* query text and k.
C11_EmptyQuery ==
    (Returned("query") /\ (~index.init \/ Len(documents) = 0)) =>
        /\ ret.outcome = "ok"
        /\ ret.docs = <<>> /\ ret.metas = <<>> /\ ret.dists = <<>>
        /\ ret.embeds = 0

\* a query of a collection that was created and holds nothing
C11_Witness ==
    /\ Returned("query")
    /\ index.init
    /\ Len(documents) = 0
    /\ call.k > 1

\* C14: when the index file exists and reading one of the three files
\* fails (corrupt or missing), create_collection returns normally with an
\* initialized, empty index and empty documents and metadatas: nothing read
\* before the failure stays in memory.
C14_FailedLoadStartsEmpty ==
    ( /\ Returned("create")
      /\ Exists(idxFile)
      /\ ~(Readable(idxFile) /\ Readable(docsFile) /\ Readable(metaFile)) ) =>
        /\ ret.outcome = "ok"
        /\ index.init
        /\ index.vecs = <<>> /\ documents = <<>> /\ metadatas = <<>>

\* create_collection has read the index and the documents, and failed on
\* the metadata file
C14_Witness ==
    /\ Returned("create")
    /\ Readable(idxFile) /\ Len(idxFile.data) > 0
    /\ Readable(docsFile) /\ Len(docsFile.data) > 0
    /\ metaFile = CorruptFile

\* a step in which add_documents meets a failing embedding call
AddEmbedFails == phase = "idle" /\ call'.op = "add" /\ call'.fault.mode = "embed"

FilesUnchanged == UNCHANGED <<idxFile, docsFile, metaFile>>

\* C15: when the embedding call fails for a chunk of the batch (first,
\* middle or last) add_documents raises to its caller and the index vectors,
\* documents, metadatas and the three files are exactly as before the call;
\* no prefix of the batch is added.
C15_EmbedFailureChangesNothing ==
    [][AddEmbedFails =>
          /\ ret'.outcome = "EmbeddingError"
          /\ Mem' = Mem
          /\ FilesUnchanged]_vars

\* C15, amended: add_documents raises, the three files are as before and no
\* chunk of the batch is added: the containers are as before the call when
\* the index was initialized, and else are what create_collection, which
\* add_documents calls first, loads from the files.
C15_EmbedFailureAddsNothing ==
    [][AddEmbedFails =>
          /\ ret'.outcome = "EmbeddingError"
          /\ Mem' = (IF index.init THEN Mem ELSE Reload)
          /\ FilesUnchanged]_vars

\* the embedding of the last of two chunks has failed, on a collection that
\* holds documents
C15_Witness ==
    /\ Returned("add")
    /\ ret.outcome = "EmbeddingError"
    /\ Len(call.chunks) = 2 /\ call.fault.at = 2
    /\ Len(documents) > 0

\* a step in which add_documents returns normally
AddSucceeds == phase = "idle" /\ call'.op = "add" /\ ret'.outcome = "ok"

\* the collection add_documents adds to: the one in memory, or the one it
\* loads first when the index is None
AddedTo == IF index.init THEN Mem ELSE Reload

\* after the step, positions 0..size-1 of the three containers are those of
\* the collection c and position size+j holds the vector, the text and the
\* metadata of the j-th chunk of the batch
AppendedInOrder(c, size, batch) ==
    /\ Len(index'.vecs) = size + Len(batch)
    /\ Len(documents') = size + Len(batch)
    /\ Len(metadatas') = size + Len(batch)
    /\ Len(c.vecs) >= size /\ Len(c.docs) >= size /\ Len(c.metas) >= size
    /\ \A i \in 1..size :
          /\ index'.vecs[i] = c.vecs[i]
          /\ documents'[i] = c.docs[i]
          /\ metadatas'[i] = c.metas[i]
    /\ \A j \in 1..Len(batch) :
          /\ index'.vecs[size + j] = get_embedding(batch[j].text)
          /\ documents'[size + j] = batch[j].text
          /\ metadatas'[size + j] = ChunkMetadata(batch[j])

\* C16: add_documents is append-only and order-preserving: after a
\* successful add of n chunks to a collection of size m, positions 0..m-1 of
\* vectors, documents and metadatas are unchanged and position m+j holds the
\* vector, text and metadata of the j-th chunk.
C16_AppendOnly ==
    [][AddSucceeds =>
          AppendedInOrder(AddedTo, Len(AddedTo.docs), call'.chunks)]_vars

\* the same of a collection whose containers agree in length
AppendOnlyWhenParallel ==
    [][(AddSucceeds /\ Parallel(AddedTo)) =>
          AppendedInOrder(AddedTo, Len(AddedTo.docs), call'.chunks)]_vars

(***************************************************************************)
(* Properties of answer_question.                                          *)
(***************************************************************************)
\* the exception answer_question meets when called as c on the containers
\* m, "" if none: from the query embedding, from the formatting of the
\* search results, or from the generation client
FailureOf(c, ix, m) ==
    IF NothingToSearch(ix, m.docs) THEN ""
    ELSE IF c.fault.mode = "embed" THEN "EmbeddingError"
    ELSE IF QueryResult(m, c.q, c.k).outcome # "ok" THEN QueryResult(m, c.q, c.k).outcome
    ELSE IF c.fault.mode = "generate" THEN "GenerationError"
    ELSE ""

\* C12: answer_question never raises: when the vector query, the query
\* embedding, the prompt or the generation call fails it returns a response
\* whose answer carries the description of the cause and whose sources are
\* empty, and the call leaves the collection, in memory and on disk, as it
\* was.
C12_AnswerNeverRaises ==
    [][(phase = "idle" /\ call'.op = "answer") =>
          /\ ret'.outcome = "ok"
          /\ "answer" \in ret'.resp.keys /\ "sources" \in ret'.resp.keys
          /\ FailureOf(call', index, Mem) # "" =>
                /\ ret'.resp.answer = <<"Error generating answer: ", FailureOf(call', index, Mem)>>
                /\ ret'.resp.sources = <<>>
          /\ UNCHANGED <<index, documents, metadatas, collection_name,
                         idxFile, docsFile, metaFile>>]_vars

\* the generation client has failed on a question about two documents or more
C12_Witness ==
    /\ Returned("answer")
    /\ call.fault.mode = "generate"
    /\ ret.resp.error = "GenerationError"
    /\ Len(documents) > 1

\* C13: when the vector query returns no documents (index None or empty
\* collection) answer_question returns the fixed "No documents found..."
\* answer with empty sources and no error field, and makes no call to the
\* generation client.
C13_NoDocumentsSentinel ==
    (Returned("answer") /\ (~index.init \/ Len(documents) = 0)) =>
        /\ ret.outcome = "ok"
        /\ ret.resp.keys = {"answer", "sources"}
        /\ ret.resp.answer = NoDocumentsAnswer
        /\ ret.resp.sources = <<>>
        /\ ret.gens = 0

\* a question asked of a collection that was created and holds nothing
C13_Witness ==
    /\ Returned("answer")
    /\ index.init
    /\ Len(documents) = 0

\* a response of answer_question that carries the generated answer
Answered == Returned("answer") /\ "context_used" \in ret.resp.keys

\* sources has one entry for each retrieved result, in retrieval order
SourcesFollowResults ==
    /\ Len(ret.resp.sources) = ret.resp.context_used
    /\ Len(ret.resp.sources) = Len(ret.docs)
    /\ \A i \in 1..Len(ret.resp.sources) :
          /\ ret.resp.sources[i].text_preview.of = ret.docs[i]
          /\ ret.resp.sources[i].chunk_id = ret.metas[i].chunk_id

Abs(x) == IF x < 0 THEN -x ELSE x

C5_ShortTextOneChunk ==
    (cpc = "done" /\ Len(text) >= 1 /\ Len(text) <= chunk_size) =>
        (Len(chunks) = 1 /\ chunks[1].text = text)

Scenario ==
    /\ text = ScenarioText
    /\ chunk_size = DefaultChunkSize
    /\ chunk_overlap = DefaultChunkOverlap

\* C6: a cleaned text of 2500 characters, chunk_size 1000 and chunk_overlap
\* 200, no sentence boundary applying, gives exactly 3 chunks, with chunk_id
\* 0, 1, 2 in order, each span overlapping the next.
C6_ScenarioThreeChunks ==
    (cpc = "done" /\ Scenario) =>
        /\ Len(chunks) = 3
        /\ \A i \in 1..Len(chunks) : chunks[i].chunk_id = i - 1
        /\ \A i \in 1..(Len(chunks) - 1) : chunks[i + 1].start_pos < chunks[i].end_pos

\* C7: with 0 <= chunk_overlap < chunk_size every iteration of the loop
\* moves the window start strictly forward, truncated at a sentence boundary
\* or not (so the loop ends).
C7_StartAdvances ==
    [][(cpc = "loop" /\ cpc' = "loop" /\ 0 <= chunk_overlap /\ chunk_overlap < chunk_size)
          => start' > start]_vars

\* C8: the spans [start_pos, end_pos) of the chunks chunk_text returns leave
\* no gap between consecutive chunks and together cover every position
\* 0..len(text)-1 of the cleaned text.
C8_SpansCover ==
    cpc = "done" =>
        /\ \A i \in 1..(Len(chunks) - 1) : chunks[i + 1].start_pos <= chunks[i].end_pos
        /\ \A p \in 0..(Len(text) - 1) :
              \E i \in 1..Len(chunks) : chunks[i].start_pos <= p /\ p < chunks[i].end_pos

\* a run that returned several chunks, one of them cut at a sentence boundary
C8_Witness ==
    /\ cpc = "done"
    /\ Len(chunks) >= 3
    /\ chunk_overlap >= 1
    /\ \E i \in 1..(Len(chunks) - 1) :
          chunks[i].end_pos - chunks[i].start_pos < chunk_size

\* the offsets, within the window of chunk_size characters that starts at
\* position st of the text, of the characters '.', '?' and '!'
Terminators(st) ==
    {o \in 0..(chunk_size - 1) :
        st + o < Len(text) /\ st + o >= 0 /\ text[st + o + 1] \in {".", "?", "!"}}

\* C18: a chunk whose window of chunk_size characters does not reach the
\* end of the cleaned text spans the whole window, or ends at, and
\* includes, the last '.', '?' or '!' of the window, the latter only when
\* that character's offset in the window is above chunk_size // 2; such a
\* chunk spans more than chunk_size // 2 and at most chunk_size characters.
C18_SentenceBoundary ==
    \A i \in 1..Len(chunks) :
        LET st   == chunks[i].start_pos
            len  == chunks[i].end_pos - chunks[i].start_pos
            T    == Terminators(st)
        IN
        (cpc # "call" /\ st + chunk_size < Len(text)) =>
            /\ \/ len = chunk_size
               \/ /\ T # {}
                  /\ \A o \in T : o <= len - 1
                  /\ (len - 1) \in T
                  /\ len - 1 > chunk_size \div 2
            /\ len > chunk_size \div 2
            /\ len <= chunk_size

\* chunk_text has returned a chunk cut short at a sentence end
C18_Witness ==
    /\ cpc = "done"
    /\ \E i \in 1..Len(chunks) :
          /\ chunks[i].start_pos + chunk_size < Len(text)
          /\ chunks[i].end_pos - chunks[i].start_pos < chunk_size
          /\ text[chunks[i].end_pos] \in {".", "?", "!"}

(***************************************************************************)
(* Properties of the threads.                                              *)
(***************************************************************************)
AllIdle == \A t \in Threads : conc.thr[t].pc = "idle"

\* the vector count differs from len(documents), or the vector at some
\* position was not computed from the text stored there
Misaligned ==
    \/ Len(index.vecs) # Len(documents)
    \/ \E p \in 1..Len(documents) : index.vecs[p] # get_embedding(documents[p])

\* the query of thread t indexed past the end of a list, or returned a
\* document that is not the one at the distance reported for it
WrongResult(t) ==
    LET th == conc.thr[t] IN
    /\ th.pc = "answered"
    /\ \/ th.outcome = "IndexError"
       \/ \E h \in 1..Len(th.docs) :
             L2Sq(get_embedding(th.docs[h]), get_embedding(th.q)) # th.hits[h].dist

\* C19: the vector index is not safe under interleaving: when two
\* add_documents calls, or an add_documents and a query, interleave between
\* the index append, the documents append, the metadata append and the
\* save, the calls can end with the vector at some position not computed
\* from the text stored there (or with unequal counts), and a query can
\* return the wrong document or index past the end of documents.  Calls
\* that do not overlap never do: the fault lies in the interleaving.
C19_UnsafeOnlyByInterleaving ==
    /\ (AllIdle /\ Misaligned) => conc.overlapped
    /\ \A t \in Threads : WrongResult(t) => conc.overlapped

\* both calls of add_documents have returned and the vectors are not in the
\* order of the documents
C19_Witness ==
    /\ AllIdle
    /\ conc.overlapped
    /\ Len(index.vecs) = Len(documents)
    /\ \E p \in 1..Len(documents) : index.vecs[p] # get_embedding(documents[p])

\* a query that another thread's add_documents overtook has indexed past
\* the end of documents
QueryPastTheEnd ==
    \E t \in Threads : conc.thr[t].pc = "answered" /\ conc.thr[t].outcome = "IndexError"

====
